---------------------------- MODULE Spec2Model ----------------------------
(***************************************************************************)
(* Model of clawcolab/__init__.py (ClawColabSkill v2.2).                   *)
(*                                                                         *)
(* Four specifications share the module:                                   *)
(*   SpecPoll   start_polling / _poll_loop of one ClawColabSkill instance, *)
(*              run by two start_polling coroutines on one event loop.     *)
(*   SpecCycle  _poll_loop awaited directly, cycle after cycle, with the   *)
(*              fetched body of each cycle kept for comparison.            *)
(*   SpecApi    the request wrappers that send a credential, and register. *)
(*   SpecMatch  the interest match expression of _poll_loop as a function  *)
(*              of an idea and an interest list.                           *)
(*                                                                         *)
(* asyncio runs one coroutine at a time and switches only at an await, so  *)
(* the code between two awaits is one action.  Exceptions are those of     *)
(* class Exception, which the except clause of start_polling catches.      *)
(***************************************************************************)
EXTENDS Integers, Sequences, FiniteSets, TLC

(* ------------------------------ bounds -------------------------------- *)

\* item ids the remote can return are 1..MaxId
MaxId == 2
\* longest page of ideas a fetch returns
MaxLen == 2
\* requests counted by the request counter of SpecApi
MaxReq == 3
\* longest tag list and interest list of SpecMatch
MaxTags == 2

(* ----------------------- program constants ---------------------------- *)

POLL_INTERVAL == 60

(* ------------------------------ values -------------------------------- *)

Pollers == {1, 2}
Ids == 1..MaxId

\* the remote's ideas, JSON objects with a unique id and a tag list that does
\* not change: ideas with an odd id are tagged a, those with an even id b
Ideas == {[id |-> i, tags |-> IF i % 2 = 1 THEN <<"a">> ELSE <<"b">>] : i \in Ids}

RECURSIVE SeqsUpTo(_, _)
SeqsUpTo(S, n) ==
    IF n = 0 THEN {<<>>}
    ELSE LET shorter == SeqsUpTo(S, n - 1)
         IN shorter \cup {Append(s, e) : s \in {t \in shorter : Len(t) = n - 1}, e \in S}

\* the remote's ids are unique: a page never holds one id twice
Pages == {s \in SeqsUpTo(Ideas, MaxLen) :
            \A i, j \in DOMAIN s : s[i].id = s[j].id => i = j}

\* what resp.json() of GET /api/ideas can be: a bare JSON array of ideas, or
\* the object documented in get_ideas: {"ideas": [...], "count", "total", "has_more"}
Bodies == [kind : {"list"}, ideas : Pages] \cup [kind : {"dict"}, ideas : Pages]

\* exceptions get_ideas can raise: httpx.TransportError from http.get,
\* HTTPStatusError from raise_for_status, ValueError from resp.json()
FetchErrors == {"TransportError", "HTTPStatusError", "JSONDecodeError"}

\* the callback argument of start_polling: None or a callable
NoCallback == "None"
Handlers == {"h1"}
CallbackArgs == {NoCallback} \cup Handlers

\* the interval argument of the two start_polling calls: the first passes
\* none (0 stands for None, both are falsy), the second passes 5
IntervalArg == [p \in Pollers |-> IF p = 1 THEN 0 ELSE 5]

\* the ids for which the handler raises during one cycle: the first raise
\* ends the cycle, so one id at most decides it
Raising == {{}} \cup {{i} : i \in Ids}

\* values config.interests takes
InterestLists == {<<>>, <<"a">>}

(* ------------------------------ state --------------------------------- *)

VARIABLES
    known,       \* self._known_idea_ids
    callbacks,   \* self._callbacks
    interests,   \* self.config.interests
    pc,          \* position of each start_polling coroutine
    interval,    \* the local variable interval of each start_polling call
    failed,      \* whether the previous cycle of each start_polling call failed
    calls,       \* handler invocations per item id, over the instance's lifetime
    offered,     \* evaluations of the interest match per item id
    nomatch,     \* the ideas whose interest match came out false
    report,      \* SpecPoll: summary of the cycle the latest step ran, if it ran one
    last,        \* SpecCycle: the most recent cycle, its input and what it did
    sent,        \* SpecApi: number of requests handed to self.http
    lastReq,     \* SpecApi: the most recent request and the arguments behind it
    issued,      \* SpecApi: the token the last successful register returned
    mIdea,       \* SpecMatch: the idea
    mInterests,  \* SpecMatch: config.interests
    mResult      \* SpecMatch: truth value of matches, once evaluated

pollVars == <<known, callbacks, interests, pc, interval, failed, calls, offered, nomatch, report>>

apiVars == <<sent, lastReq, issued>>

matchVars == <<mIdea, mInterests, mResult>>

vars == <<pollVars, last, apiVars, matchVars>>

(* ----------------------- _poll_loop, pure part ------------------------ *)

ToSet(s) == {s[i] : i \in DOMAIN s}

\* idea.get("tags", [])
TagsOf(idea) == IF "tags" \in DOMAIN idea THEN idea.tags ELSE <<>>

\* truth value of
\*   set(idea.get("tags", [])).intersection(set(self.config.interests))
\*       if self.config.interests else True
MatchesNoDefault(idea, ints) ==
    ints # <<>> /\ ToSet(TagsOf(idea)) \cap ToSet(ints) # {}
Matches(idea, ints) ==
    IF ints # <<>> THEN ToSet(TagsOf(idea)) \cap ToSet(ints) # {} ELSE TRUE

\* idea["id"] not in self._known_idea_ids
IsNewAlways(kn, id) == TRUE
IsNew(kn, id) == id \notin kn

\* self._known_idea_ids.add(idea["id"])
MarkSeenNoop(kn, id) == kn
MarkSeen(kn, id) == kn \cup {id}

\* self._callbacks.get('activity')
CallbackGet(cbs) == IF "activity" \in DOMAIN cbs THEN cbs["activity"] ELSE NoCallback

\* `for idea in ideas` iterates a list's elements, and a dict's keys
Iterate(body) ==
    IF body.kind = "list"
    THEN [i \in DOMAIN body.ideas |-> [t |-> "object", v |-> body.ideas[i]]]
    ELSE <<[t |-> "str", v |-> "ideas"], [t |-> "str", v |-> "count"],
           [t |-> "str", v |-> "total"], [t |-> "str", v |-> "has_more"]>>

\* the state of the for loop: the seen-set, the ideas the handler was invoked
\* for, the ids whose match was evaluated, and the exception that ended it
LoopStart(kn) == [known |-> kn, dispatched |-> <<>>, examined |-> <<>>, unmatched |-> {},
                  exc |-> "none", at |-> 0]

\* one iteration of the for loop, over element e at position i; the handler
\* raises when it is invoked for an idea whose id is in raising
PollStepMarkMatched(st, e, i, ints, cb, raising) ==
    \* variant: the id is added to the seen-set only when the idea is dispatched
    IF e.t = "str"
    THEN [st EXCEPT !.exc = "TypeError", !.at = i]
    ELSE LET idea == e.v IN
         IF IsNew(st.known, idea.id)
         THEN LET seen == [st EXCEPT !.examined = Append(st.examined, idea.id)]
              IN IF Matches(idea, ints) /\ cb # NoCallback
                 THEN LET called == [seen EXCEPT !.known = MarkSeen(st.known, idea.id),
                                                 !.dispatched = Append(seen.dispatched, idea)]
                      IN IF idea.id \in raising
                         THEN [called EXCEPT !.exc = "HandlerError", !.at = i]
                         ELSE called
                 ELSE [seen EXCEPT !.unmatched = IF Matches(idea, ints) THEN @
                                                 ELSE @ \cup {idea}]
         ELSE st

PollStepMarkAfter(st, e, i, ints, cb, raising) ==
    \* variant: the id is added to the seen-set after the handler has returned
    IF e.t = "str"
    THEN [st EXCEPT !.exc = "TypeError", !.at = i]
    ELSE LET idea == e.v IN
         IF IsNew(st.known, idea.id)
         THEN LET seen == [st EXCEPT !.examined = Append(st.examined, idea.id)]
                  marked == [seen EXCEPT !.known = MarkSeen(st.known, idea.id)]
              IN IF Matches(idea, ints) /\ cb # NoCallback
                 THEN IF idea.id \in raising
                      THEN [seen EXCEPT !.dispatched = Append(seen.dispatched, idea),
                                        !.exc = "HandlerError", !.at = i]
                      ELSE [marked EXCEPT !.dispatched = Append(seen.dispatched, idea)]
                 ELSE [marked EXCEPT !.unmatched = IF Matches(idea, ints) THEN @
                                                   ELSE @ \cup {idea}]
         ELSE st

PollStep(st, e, i, ints, cb, raising) ==
    IF e.t = "str"
    THEN \* idea["id"] on a str: TypeError
         [st EXCEPT !.exc = "TypeError", !.at = i]
    ELSE LET idea == e.v IN
         IF IsNew(st.known, idea.id)
         THEN LET seen == [st EXCEPT !.known = MarkSeen(st.known, idea.id),
                                     !.examined = Append(st.examined, idea.id)]
              IN IF Matches(idea, ints) /\ cb # NoCallback
                 THEN LET called == [seen EXCEPT !.dispatched = Append(seen.dispatched, idea)]
                      IN IF idea.id \in raising
                         THEN [called EXCEPT !.exc = "HandlerError", !.at = i]
                         ELSE called
                 ELSE [seen EXCEPT !.unmatched = IF Matches(idea, ints) THEN @
                                                 ELSE @ \cup {idea}]
         ELSE st

RECURSIVE ProcessFrom(_, _, _, _, _, _)
ProcessFrom(st, elems, i, ints, cb, raising) ==
    IF i > Len(elems) \/ st.exc # "none" THEN st
    ELSE ProcessFrom(PollStep(st, elems[i], i, ints, cb, raising),
                     elems, i + 1, ints, cb, raising)

\* the for loop of _poll_loop over a response body
ProcessIdeas(kn, body, ints, cb, raising) ==
    ProcessFrom(LoopStart(kn), Iterate(body), 1, ints, cb, raising)

(* --------------------------- observations ----------------------------- *)

Count(s, id) == Cardinality({i \in DOMAIN s : s[i] = id})

IdsOf(ideas) == [i \in DOMAIN ideas |-> ideas[i].id]

\* the fetched ideas a cycle is expected to hand to the handler: those whose
\* id is not in the seen-set kn and whose tags match, in the order received
Expected(ideas, kn, ints) ==
    SelectSeq(ideas, LAMBDA idea : idea.id \notin kn /\ Matches(idea, ints))

NoReport == [fetch |-> "none", exc |-> "none", retry |-> FALSE, missed |-> {}, again |-> {}]

NoBody == [kind |-> "none", ideas |-> <<>>]

NoCycle == [fetch |-> "none", body |-> NoBody, known0 |-> {}, exc |-> "none", at |-> 0,
            dispatched |-> <<>>, examined |-> <<>>, prev |-> "none", prevCalls |-> 0]

(* ------------------------ requests and tokens ------------------------- *)

\* a token argument: None, or a str (possibly empty)
NoneToken == [t |-> "None"]
StrToken(v) == [t |-> "str", v |-> v]
TokenStrings == {"", "T1", "T2"}
Tokens == {NoneToken} \cup {StrToken(v) : v \in TokenStrings}

\* the tokens the platform issues on registration
IssuedTokens == {"T1", "T2"}

\* f"{token}"
Format(tok) == IF tok.t = "None" THEN "None" ELSE tok.v

\* truth value of a token in `if token`
Truthy(tok) == tok.t = "str" /\ tok.v # ""

NoHeaders == [k \in {} |-> ""]

\* headers={"Authorization": f"Bearer {token}"}
BearerHeaders(tok) == [Authorization |-> "Bearer " \o Format(tok)]

\* headers={"Authorization": f"Bearer {token}"} if token else {}
OptionalBearerHeaders(tok) == IF Truthy(tok) THEN BearerHeaders(tok) ELSE NoHeaders

\* len(content) of the comments tried
ContentLens == {0, 1, 500, 501}

NoRequest == [op |-> "none", headers |-> NoHeaders, token |-> NoneToken, contentLen |-> 0,
              status |-> "none"]

\* what the remote answers: 2xx, or a status raise_for_status raises on
Statuses == {"ok", "error"}

InitApiVars ==
    /\ sent = 0
    /\ lastReq = NoRequest
    /\ issued = "none"

(* --------------------------- match inputs ----------------------------- *)

\* tag strings; "a" and "A" differ in case only
MatchTags == {"a", "A", "b"}

MatchLists == SeqsUpTo(MatchTags, MaxTags)

\* ideas with a tag list, and the idea without a "tags" key
MatchIdeas == [id : {1}, tags : MatchLists] \cup [id : {1}]

InitMatchVars ==
    /\ mIdea = [id |-> 1]
    /\ mInterests = <<>>
    /\ mResult = "unset"

(* ------------------------------ SpecPoll ------------------------------ *)

InitInstance ==
    /\ known = {}
    /\ callbacks = [k \in {} |-> NoCallback]

InitPollers ==
    /\ pc = [p \in Pollers |-> "idle"]
    /\ interval = [p \in Pollers |-> 0]
    /\ failed = [p \in Pollers |-> FALSE]
    /\ calls = [i \in Ids |-> 0]
    /\ offered = [i \in Ids |-> 0]
    /\ nomatch = {}
    /\ report = NoReport

InitPoll ==
    /\ InitInstance
    /\ interests \in InterestLists
    /\ InitPollers
    /\ last = NoCycle
    /\ InitApiVars
    /\ InitMatchVars

\* start_polling up to its first await: store the callback, choose the
\* interval, enter the loop and _poll_loop, send GET /api/ideas
StartPolling(p, cb) ==
    /\ pc[p] = "idle"
    /\ callbacks' = [k \in DOMAIN callbacks \cup {"activity"} |->
                        IF k = "activity" THEN cb ELSE callbacks[k]]
    /\ interval' = [interval EXCEPT ![p] = IF IntervalArg[p] # 0 THEN IntervalArg[p]
                                                  ELSE POLL_INTERVAL]
    /\ pc' = [pc EXCEPT ![p] = "fetching"]
    /\ report' = NoReport
    /\ UNCHANGED <<known, interests, failed, calls, offered, nomatch, last,
                   apiVars, matchVars>>

\* get_ideas raises: the except clause of start_polling prints the error and
\* awaits asyncio.sleep(interval)
FetchRaises(p, err) ==
    /\ pc[p] = "fetching"
    /\ report' = [NoReport EXCEPT !.fetch = "raised", !.exc = err, !.retry = failed[p]]
    /\ failed' = [failed EXCEPT ![p] = TRUE]
    /\ pc' = [pc EXCEPT ![p] = "error_sleeping"]
    /\ UNCHANGED <<known, callbacks, interests, interval, calls, offered, nomatch, last,
                   apiVars, matchVars>>

\* get_ideas returns body: the for loop runs to its end or to an exception,
\* then the coroutine awaits asyncio.sleep(interval), in _poll_loop or in the
\* except clause of start_polling
FetchReturns(p, body, raising) ==
    /\ pc[p] = "fetching"
    /\ \E cb \in {CallbackGet(callbacks)} :
       \E r \in {ProcessIdeas(known, body, interests, cb, raising)} :
       \E dids \in {IdsOf(r.dispatched)} :
          /\ known' = r.known
          /\ calls' = [i \in Ids |-> calls[i] + Count(dids, i)]
          /\ offered' = [i \in Ids |-> offered[i] + Count(r.examined, i)]
          /\ nomatch' = nomatch \cup r.unmatched
          /\ report' = [fetch |-> "returned", exc |-> r.exc, retry |-> failed[p],
                        missed |-> {x.id : x \in {y \in ToSet(body.ideas) :
                                       /\ y.id \notin known /\ Matches(y, interests)
                                       /\ cb # NoCallback /\ y.id \notin ToSet(dids)}},
                        again |-> {y \in ToSet(body.ideas) :
                                       /\ y.id \in known /\ Matches(y, interests)
                                       /\ cb # NoCallback /\ body.kind = "list"}]
          /\ failed' = [failed EXCEPT ![p] = r.exc # "none"]
          /\ pc' = [pc EXCEPT ![p] = IF r.exc = "none" THEN "sleeping" ELSE "error_sleeping"]
    /\ UNCHANGED <<callbacks, interests, interval, last, apiVars, matchVars>>

\* asyncio.sleep(interval) returns: `while True` calls _poll_loop again,
\* which sends GET /api/ideas
WakeUp(p) ==
    /\ pc[p] \in {"sleeping", "error_sleeping"}
    /\ pc' = [pc EXCEPT ![p] = "fetching"]
    /\ report' = NoReport
    /\ UNCHANGED <<known, callbacks, interests, interval, failed, calls, offered, nomatch,
                   last, apiVars, matchVars>>

\* the owner of the instance assigns config.interests between cycles
SetInterests(ints) ==
    /\ ints # interests
    /\ interests' = ints
    /\ report' = NoReport
    /\ UNCHANGED <<known, callbacks, pc, interval, failed, calls, offered, nomatch,
                   last, apiVars, matchVars>>

NextPoll ==
    \/ \E p \in Pollers, cb \in CallbackArgs : StartPolling(p, cb)
    \/ \E p \in Pollers, err \in FetchErrors : FetchRaises(p, err)
    \/ \E p \in Pollers, body \in Bodies, raising \in Raising : FetchReturns(p, body, raising)
    \/ \E p \in Pollers : WakeUp(p)
    \/ \E ints \in InterestLists : SetInterests(ints)

SpecPoll == InitPoll /\ [][NextPoll]_vars

(* ------------------------------ SpecCycle ----------------------------- *)
(* _poll_loop awaited directly, one cycle after another, on an instance    *)
(* whose callback and interests were set beforehand.                       *)

InitCycle ==
    /\ known = {}
    /\ callbacks \in {[k \in {} |-> NoCallback]} \cup [{"activity"} -> CallbackArgs]
    /\ interests \in InterestLists
    /\ InitPollers
    /\ last = NoCycle
    /\ InitApiVars
    /\ InitMatchVars

\* how a cycle that fetched body relates to the cycle before it
Previous(body) ==
    IF last.fetch = "returned" /\ last.body = body
    THEN IF last.exc = "HandlerError" THEN "same_body_handler_raised" ELSE "same_body"
    ELSE "none"

\* _poll_loop when get_ideas raises: nothing is examined
CycleFetchRaises(err) ==
    /\ last' = [NoCycle EXCEPT !.fetch = "raised", !.exc = err, !.known0 = known]
    /\ UNCHANGED <<pollVars, apiVars, matchVars>>

\* _poll_loop when get_ideas returns body: the for loop runs to its end, and
\* then asyncio.sleep, or to an exception
CycleReturns(body, raising) ==
    /\ \E r \in {ProcessIdeas(known, body, interests, CallbackGet(callbacks), raising)} :
          /\ known' = r.known
          /\ last' = [fetch |-> "returned", body |-> body, known0 |-> known,
                      exc |-> r.exc, at |-> r.at, dispatched |-> r.dispatched,
                      examined |-> r.examined, prev |-> Previous(body),
                      prevCalls |-> IF Previous(body) = "none" THEN 0
                                    ELSE Len(last.dispatched)]
    /\ UNCHANGED <<callbacks, interests, pc, interval, failed, calls, offered, nomatch,
                   report, apiVars, matchVars>>

NextCycle ==
    \/ \E err \in FetchErrors : CycleFetchRaises(err)
    \/ \E body \in Bodies, raising \in Raising : CycleReturns(body, raising)

SpecCycle == InitCycle /\ [][NextCycle]_vars

(* ------------------------------- SpecApi ------------------------------ *)
(* The wrappers are called one after another by a caller who passes any    *)
(* token argument.                                                         *)

InitApi ==
    /\ InitInstance
    /\ interests \in InterestLists
    /\ InitPollers
    /\ last = NoCycle
    /\ InitApiVars
    /\ InitMatchVars

\* self.http.post / self.http.get is called with these headers
Send(op, headers, tok, len, status) ==
    /\ sent < MaxReq
    /\ sent' = sent + 1
    /\ lastReq' = [op |-> op, headers |-> headers, token |-> tok, contentLen |-> len,
                   status |-> status]

\* register: POST /api/bots/register without credential; returns resp.json(),
\* which holds the token, or raises; no attribute of the instance is assigned
Register(status, tok) ==
    /\ Send("register", NoHeaders, NoneToken, 0, status)
    /\ issued' = IF status = "ok" THEN tok ELSE issued
    /\ UNCHANGED <<pollVars, last, matchVars>>

CreateIdea(tok, status) ==
    /\ Send("create_idea", OptionalBearerHeaders(tok), tok, 0, status)
    /\ UNCHANGED <<issued, pollVars, last, matchVars>>

ExpressInterest(tok, status) ==
    /\ Send("express_interest", BearerHeaders(tok), tok, 0, status)
    /\ UNCHANGED <<issued, pollVars, last, matchVars>>

UpvoteIdea(tok, status) ==
    /\ Send("upvote_idea", BearerHeaders(tok), tok, 0, status)
    /\ UNCHANGED <<issued, pollVars, last, matchVars>>

DownvoteIdea(tok, status) ==
    /\ Send("downvote_idea", BearerHeaders(tok), tok, 0, status)
    /\ UNCHANGED <<issued, pollVars, last, matchVars>>

\* comment_idea posts {"content": content} whatever len(content) is
CommentIdea(tok, len, status) ==
    /\ Send("comment_idea", BearerHeaders(tok), tok, len, status)
    /\ UNCHANGED <<issued, pollVars, last, matchVars>>

CreateTask(tok, status) ==
    /\ Send("create_task", OptionalBearerHeaders(tok), tok, 0, status)
    /\ UNCHANGED <<issued, pollVars, last, matchVars>>

ClaimTask(tok, status) ==
    /\ Send("claim_task", BearerHeaders(tok), tok, 0, status)
    /\ UNCHANGED <<issued, pollVars, last, matchVars>>

CompleteTask(tok, status) ==
    /\ Send("complete_task", BearerHeaders(tok), tok, 0, status)
    /\ UNCHANGED <<issued, pollVars, last, matchVars>>

CreateBounty(tok, status) ==
    /\ Send("create_bounty", OptionalBearerHeaders(tok), tok, 0, status)
    /\ UNCHANGED <<issued, pollVars, last, matchVars>>

ClaimBounty(tok, status) ==
    /\ Send("claim_bounty", BearerHeaders(tok), tok, 0, status)
    /\ UNCHANGED <<issued, pollVars, last, matchVars>>

SendGithubWebhook(tok, status) ==
    /\ Send("send_github_webhook", BearerHeaders(tok), tok, 0, status)
    /\ UNCHANGED <<issued, pollVars, last, matchVars>>

GetGithubRepo(tok, status) ==
    /\ Send("get_github_repo", BearerHeaders(tok), tok, 0, status)
    /\ UNCHANGED <<issued, pollVars, last, matchVars>>

GetActivity(tok, status) ==
    /\ Send("get_activity", BearerHeaders(tok), tok, 0, status)
    /\ UNCHANGED <<issued, pollVars, last, matchVars>>

CredentialOps ==
    {"create_idea", "create_task", "create_bounty", "express_interest", "upvote_idea",
     "downvote_idea", "comment_idea", "claim_task", "complete_task", "claim_bounty",
     "send_github_webhook", "get_github_repo", "get_activity"}

NextApi ==
    \/ \E st \in Statuses, tok \in IssuedTokens : Register(st, tok)
    \/ \E tok \in Tokens, st \in Statuses : CreateIdea(tok, st)
    \/ \E tok \in Tokens, st \in Statuses : ExpressInterest(tok, st)
    \/ \E tok \in Tokens, st \in Statuses : UpvoteIdea(tok, st)
    \/ \E tok \in Tokens, st \in Statuses : DownvoteIdea(tok, st)
    \/ \E tok \in Tokens, len \in ContentLens, st \in Statuses : CommentIdea(tok, len, st)
    \/ \E tok \in Tokens, st \in Statuses : CreateTask(tok, st)
    \/ \E tok \in Tokens, st \in Statuses : ClaimTask(tok, st)
    \/ \E tok \in Tokens, st \in Statuses : CompleteTask(tok, st)
    \/ \E tok \in Tokens, st \in Statuses : CreateBounty(tok, st)
    \/ \E tok \in Tokens, st \in Statuses : ClaimBounty(tok, st)
    \/ \E tok \in Tokens, st \in Statuses : SendGithubWebhook(tok, st)
    \/ \E tok \in Tokens, st \in Statuses : GetGithubRepo(tok, st)
    \/ \E tok \in Tokens, st \in Statuses : GetActivity(tok, st)

SpecApi == InitApi /\ [][NextApi]_vars

(* ------------------------------ SpecMatch ----------------------------- *)

InitMatch ==
    /\ InitInstance
    /\ interests = <<>>
    /\ InitPollers
    /\ last = NoCycle
    /\ InitApiVars
    /\ mIdea \in MatchIdeas
    /\ mInterests \in MatchLists
    /\ mResult = "unset"

\* lines 302-305 of _poll_loop for one idea: matches is computed and tested
EvaluateMatch ==
    /\ mResult = "unset"
    /\ mResult' = IF Matches(mIdea, mInterests) THEN "true" ELSE "false"
    /\ UNCHANGED <<mIdea, mInterests, pollVars, last, apiVars>>

NextMatch == EvaluateMatch

SpecMatch == InitMatch /\ [][NextMatch]_vars

(* ------------------------- claims: polling ---------------------------- *)

\* C1: over any sequence of cycles of the two start_polling calls on one
\* instance, the handler is invoked at most once for any item id.
C1_AtMostOnce == \A i \in Ids : calls[i] <= 1

\* both start_polling calls are running, and a cycle has fetched again, as a
\* matching idea, an id the handler was already invoked for
C1_Witness ==
    /\ \A p \in Pollers : pc[p] # "idle"
    /\ \E x \in report.again : calls[x.id] = 1

\* C2 as claimed: a cycle that follows a failed cycle of the same
\* start_polling call, and whose fetch returns, hands every matching unseen
\* fetched idea to the handler (unless the handler itself raises); and a
\* start_polling call whose cycle failed is asleep or fetching again.
C2_AsClaimed ==
    /\ \A p \in Pollers : failed[p] => pc[p] \in {"error_sleeping", "fetching"}
    /\ (report.fetch = "returned" /\ report.retry /\ report.exc # "HandlerError")
          => report.missed = {}

\* C6: the interest match is evaluated at most once per id; an id is in the
\* seen-set exactly when its match has been evaluated, whatever the outcome and
\* whether or not a handler is set; the seen-set never loses an id; and the
\* handler is never invoked for an id that is already in the seen-set.
C6_OfferedOnce ==
    /\ [](\A i \in Ids : /\ offered[i] <= 1
                         /\ (i \in known <=> offered[i] = 1)
                         /\ (i \in {x.id : x \in nomatch} => calls[i] = 0))
    /\ [][/\ known \subseteq known'
          /\ \A i \in known : calls'[i] = calls[i]]_vars

\* an idea whose match failed when it was first seen has been fetched again,
\* unchanged, in a cycle where its tags match the interests (which have been
\* changed since) and a handler is set
C6_Witness == \E x \in report.again : x \in nomatch /\ calls[x.id] = 0

(* ------------------------- claims: one cycle -------------------------- *)

C4_AsClaimed ==
    (/\ last.fetch = "returned"
     /\ CallbackGet(callbacks) # NoCallback
     /\ last.exc # "HandlerError")
        => last.dispatched = Expected(last.body.ideas, last.known0, interests)

\* C10: when the handler raises for the idea at position k of the fetch, the
\* seen-set is the seen-set before the cycle plus the ids at positions 1..k;
\* the failing idea is the last one the handler was invoked for; no new id
\* after position k is in the seen-set; and in every cycle over a list of
\* ideas the handler is invoked for no id that was already seen and for
\* every unseen matching idea up to the position where the cycle ended.
C10_AbortAtHandlerError ==
    LET ideas == last.body.ideas
        ids == IdsOf(ideas)
        stop == IF last.exc = "none" THEN Len(ideas) ELSE last.at
        cb == CallbackGet(callbacks)
    IN /\ last.exc = "HandlerError" =>
            /\ last.body.kind = "list"
            /\ last.at \in 1..Len(ideas)
            /\ known = last.known0 \cup {ids[j] : j \in 1..last.at}
            /\ last.dispatched # <<>>
            /\ last.dispatched[Len(last.dispatched)] = ideas[last.at]
            /\ \A j \in (last.at + 1)..Len(ideas) :
                  ids[j] \notin last.known0 => ids[j] \notin known
       /\ \A j \in DOMAIN last.dispatched : last.dispatched[j].id \notin last.known0
       /\ (last.fetch = "returned" /\ last.body.kind = "list") =>
            \A j \in 1..stop :
               (ids[j] \notin last.known0 /\ Matches(ideas[j], interests) /\ cb # NoCallback)
                  => Count(last.dispatched, ideas[j]) = 1

\* the handler raised in the cycle before, which fetched the same ideas; this
\* cycle invoked the handler for an idea that came after the failing one
C10_Witness ==
    /\ last.prev = "same_body_handler_raised"
    /\ last.dispatched # <<>>
    /\ last.exc = "none"

(* ------------------------- claims: the match -------------------------- *)

\* C5: with an empty interest list the match is true for every idea, with or
\* without tags; with a non-empty interest list it is true exactly when some
\* tag of the idea is equal, as a string, to some interest.
C5_Match ==
    mResult # "unset" =>
        (mResult = "true" <=>
            \/ Len(mInterests) = 0
            \/ /\ "tags" \in DOMAIN mIdea
               /\ \E i \in 1..Len(mIdea.tags), j \in 1..Len(mInterests) :
                     mIdea.tags[i] = mInterests[j])

\* the match of an idea without tags against the empty interest list is true
C5_Witness ==
    /\ mResult = "true"
    /\ mInterests = <<>>
    /\ "tags" \notin DOMAIN mIdea

(* ------------------------ claims: the wrappers ------------------------ *)

\* C7 as claimed: no request carries a comment longer than 500 characters.
C7_AsClaimed == lastReq.op = "comment_idea" => lastReq.contentLen <= 500

\* C8 as claimed: once register has returned token T, every request of an
\* operation that sends a credential carries the header "Bearer T".
C8_AsClaimed ==
    (issued # "none" /\ lastReq.op \in CredentialOps)
        => lastReq.headers = [Authorization |-> "Bearer " \o issued]

\* C9 as claimed: a request of an operation that sends a credential carries
\* exactly "Bearer <token>" when the token is present, and no Authorization
\* header when the token is None or empty.
C9_AsClaimed ==
    lastReq.op \in CredentialOps =>
        IF lastReq.token.t = "str" /\ lastReq.token.v # ""
        THEN lastReq.headers = [Authorization |-> "Bearer " \o lastReq.token.v]
        ELSE "Authorization" \notin DOMAIN lastReq.headers

=============================================================================
